---- MODULE Spec2Model ----
(***************************************************************************)
(* Model of powerlifting_backend/utils.py: the RPE percent table, the      *)
(* percent lookup with its Epley fallback, the warm-up set generator and   *)
(* the max-rep predictor.                                                  *)
(*                                                                         *)
(* The functions compute on Python floats (IEEE-754 binary64, round to     *)
(* nearest, ties to even).  A float is modelled bit for bit: a record      *)
(*   [k |-> "fin", s |-> sign, m |-> significand, e |-> exponent]          *)
(* of value (-1)^s * m * 2^e, where m is a natural number of exactly       *)
(* Precision bits (or zero), held as a little-endian sequence of limbs     *)
(* base LimbBase because TLC's integers are 32 bits wide.  Every float     *)
(* operation computes the exact result and rounds it once, as the          *)
(* hardware does.  The inputs are far from the exponent limits, so         *)
(* overflow to infinity and subnormal numbers do not arise; "inf" is the   *)
(* initial min_diff only, and "err" is a raised ZeroDivisionError.         *)
(***************************************************************************)
EXTENDS Integers, Sequences, FiniteSets, TLC

LimbBase == 2^15

Precision == 53

(***************************************************************************)
(* Natural numbers of any size: little-endian limb sequences, no leading   *)
(* zero limb; zero is the empty sequence.                                  *)
(***************************************************************************)
RECURSIVE BNorm(_)
BNorm(a) ==
    IF a = <<>> THEN <<>>
    ELSE IF a[Len(a)] = 0 THEN BNorm(SubSeq(a, 1, Len(a) - 1))
    ELSE a

RECURSIVE BFromInt(_)
BFromInt(n) ==
    IF n = 0 THEN <<>> ELSE <<n % LimbBase>> \o BFromInt(n \div LimbBase)

RECURSIVE BToInt(_)
BToInt(a) ==
    IF a = <<>> THEN 0 ELSE Head(a) + LimbBase * BToInt(Tail(a))

RECURSIVE BCmpAt(_, _, _)
BCmpAt(a, b, i) ==
    IF i = 0 THEN 0
    ELSE IF a[i] > b[i] THEN 1
    ELSE IF a[i] < b[i] THEN -1
    ELSE BCmpAt(a, b, i - 1)

\* -1, 0, 1 as a < b, a = b, a > b
BCmp(a, b) ==
    IF Len(a) > Len(b) THEN 1
    ELSE IF Len(a) < Len(b) THEN -1
    ELSE BCmpAt(a, b, Len(a))

RECURSIVE BAddC(_, _, _)
BAddC(a, b, c) ==
    IF a = <<>> /\ b = <<>> THEN (IF c = 0 THEN <<>> ELSE <<c>>)
    ELSE LET x == (IF a = <<>> THEN 0 ELSE Head(a))
                  + (IF b = <<>> THEN 0 ELSE Head(b)) + c
         IN  <<x % LimbBase>>
             \o BAddC(IF a = <<>> THEN <<>> ELSE Tail(a),
                      IF b = <<>> THEN <<>> ELSE Tail(b),
                      x \div LimbBase)

BAdd(a, b) == BAddC(a, b, 0)

RECURSIVE BSubC(_, _, _)
BSubC(a, b, c) ==
    IF a = <<>> THEN <<>>
    ELSE LET x == Head(a) - (IF b = <<>> THEN 0 ELSE Head(b)) - c
         IN  <<IF x < 0 THEN x + LimbBase ELSE x>>
             \o BSubC(Tail(a), IF b = <<>> THEN <<>> ELSE Tail(b),
                      IF x < 0 THEN 1 ELSE 0)

\* a - b for a >= b
BSub(a, b) == BNorm(BSubC(a, b, 0))

RECURSIVE BMulSmallC(_, _, _)
BMulSmallC(a, d, c) ==
    IF a = <<>> THEN (IF c = 0 THEN <<>> ELSE <<c>>)
    ELSE LET x == Head(a) * d + c
         IN  <<x % LimbBase>> \o BMulSmallC(Tail(a), d, x \div LimbBase)

\* a * d for a limb d
BMulSmall(a, d) == IF d = 0 THEN <<>> ELSE BMulSmallC(a, d, 0)

RECURSIVE BMul(_, _)
BMul(a, b) ==
    IF a = <<>> \/ b = <<>> THEN <<>>
    ELSE BAdd(BMulSmall(a, Head(b)),
              IF Tail(b) = <<>> THEN <<>> ELSE <<0>> \o BMul(a, Tail(b)))

RECURSIVE BDivSmallAt(_, _, _, _)
BDivSmallAt(a, d, i, r) ==
    IF i = 0 THEN <<>>
    ELSE LET x == r * LimbBase + a[i]
         IN  BDivSmallAt(a, d, i - 1, x % d) \o <<x \div d>>

\* floor(a / d) for a limb d > 0
BDivSmall(a, d) == BNorm(BDivSmallAt(a, d, Len(a), 0))

RECURSIVE BModSmallAt(_, _, _, _)
BModSmallAt(a, d, i, r) ==
    IF i = 0 THEN r ELSE BModSmallAt(a, d, i - 1, (r * LimbBase + a[i]) % d)

\* a mod d for a limb d > 0
BModSmall(a, d) == BModSmallAt(a, d, Len(a), 0)

RECURSIVE Zeros(_)
Zeros(n) == IF n = 0 THEN <<>> ELSE <<0>> \o Zeros(n - 1)

RECURSIVE IntBitLen(_)
IntBitLen(n) == IF n = 0 THEN 0 ELSE 1 + IntBitLen(n \div 2)

BBitLen(a) ==
    IF a = <<>> THEN 0 ELSE (Len(a) - 1) * 15 + IntBitLen(a[Len(a)])

\* a * 2^n
BShl(a, n) ==
    IF a = <<>> THEN <<>>
    ELSE Zeros(n \div 15) \o BMulSmall(a, 2^(n % 15))

\* floor(a / 2^n)
BShr(a, n) ==
    IF n \div 15 >= Len(a) THEN <<>>
    ELSE BDivSmall(SubSeq(a, n \div 15 + 1, Len(a)), 2^(n % 15))

BIsOdd(a) == a # <<>> /\ Head(a) % 2 = 1

(***************************************************************************)
(* Floats.                                                                 *)
(***************************************************************************)
FZero == [k |-> "fin", s |-> 0, m |-> <<>>, e |-> 0]

FInf == [k |-> "inf", s |-> 0, m |-> <<>>, e |-> 0]

FErr == [k |-> "err", s |-> 0, m |-> <<>>, e |-> 0]

\* The float nearest to (-1)^s * n * 2^e, or to a value just above it when
\* sticky (a division's nonzero remainder); ties go to the even significand.
FRound(s, n, e, sticky) ==
    IF n = <<>> THEN FZero
    ELSE LET len == BBitLen(n) IN
         IF len <= Precision
         THEN [k |-> "fin", s |-> s, m |-> BShl(n, Precision - len),
               e |-> e - (Precision - len)]
         ELSE LET sh   == len - Precision
                  q    == BShr(n, sh)
                  rem  == BSub(n, BShl(q, sh))
                  c    == BCmp(rem, BShl(<<1>>, sh - 1))
                  up   == c = 1 \/ (c = 0 /\ (sticky \/ BIsOdd(q)))
                  q1   == IF up THEN BAdd(q, <<1>>) ELSE q
              IN  IF BBitLen(q1) > Precision
                  THEN [k |-> "fin", s |-> s, m |-> BShr(q1, 1), e |-> e + sh + 1]
                  ELSE [k |-> "fin", s |-> s, m |-> q1, e |-> e + sh]

\* int -> float
FFromInt(i) ==
    FRound(IF i < 0 THEN 1 ELSE 0, BFromInt(IF i < 0 THEN -i ELSE i), 0, FALSE)

FMul(a, b) ==
    IF a.k = "err" \/ b.k = "err" THEN FErr
    ELSE FRound((a.s + b.s) % 2, BMul(a.m, b.m), a.e + b.e, FALSE)

\* <<x \div d, x % d>> by the estimate est <= x \div d, raised until it is exact
RECURSIVE BDivFix(_, _, _)
BDivFix(rem, d, est) ==
    IF BCmp(rem, d) >= 0 THEN BDivFix(BSub(rem, d), d, est + 1)
    ELSE <<est, rem>>

\* <<x \div d, x % d>> for a d of Precision bits and x < d * 2^14: the digit
\* is estimated from the leading 15 bits of d, from below
BDivDigit(x, d) ==
    LET est == BToInt(BShr(x, Precision - 15))
                   \div (BToInt(BShr(d, Precision - 15)) + 1)
    IN  BDivFix(BSub(x, BMulSmall(d, est)), d, est)

\* n more digits (of 14 bits each) of the quotient q of remainder x < d:
\* <<quotient, remainder>>
RECURSIVE BDivDigits(_, _, _, _)
BDivDigits(x, d, q, n) ==
    IF n = 0 THEN <<q, x>>
    ELSE LET qr == BDivDigit(BShl(x, 14), d)
         IN  BDivDigits(qr[2], d, BAdd(BShl(q, 14), BFromInt(qr[1])), n - 1)

\* a / b; a zero divisor raises ZeroDivisionError
FDiv(a, b) ==
    IF a.k = "err" \/ b.k = "err" \/ b.m = <<>> THEN FErr
    ELSE IF a.m = <<>> THEN FZero
    ELSE LET first == BCmp(a.m, b.m) >= 0
             qr == BDivDigits(IF first THEN BSub(a.m, b.m) ELSE a.m, b.m,
                              IF first THEN <<1>> ELSE <<>>, 4)
         IN  FRound((a.s + b.s) % 2, qr[1], a.e - b.e - 56, qr[2] # <<>>)

\* -1, 0, 1 as |a| < |b|, |a| = |b|, |a| > |b| (finite, normalised)
FCmpAbs(a, b) ==
    IF a.m = <<>> /\ b.m = <<>> THEN 0
    ELSE IF a.m = <<>> THEN -1
    ELSE IF b.m = <<>> THEN 1
    ELSE IF a.e > b.e THEN 1
    ELSE IF a.e < b.e THEN -1
    ELSE BCmp(a.m, b.m)

\* -1, 0, 1 as a < b, a = b, a > b (finite)
FCmp(a, b) ==
    IF a.s = 0 /\ b.s = 0 THEN FCmpAbs(a, b)
    ELSE IF a.s = 1 /\ b.s = 1 THEN FCmpAbs(b, a)
    ELSE IF a.m = <<>> /\ b.m = <<>> THEN 0
    ELSE IF a.s = 1 THEN -1 ELSE 1

FLt(a, b) ==
    IF a.k = "inf" THEN FALSE
    ELSE IF b.k = "inf" THEN TRUE
    ELSE FCmp(a, b) < 0

FLe(a, b) == a = b \/ FLt(a, b)

FNeg(a) == IF a.m = <<>> THEN a ELSE [a EXCEPT !.s = 1 - a.s]

FAbs(a) == [a EXCEPT !.s = 0]

FAdd(a, b) ==
    IF a.k = "err" \/ b.k = "err" THEN FErr
    ELSE IF a.m = <<>> THEN b
    ELSE IF b.m = <<>> THEN a
    ELSE LET e  == IF a.e < b.e THEN a.e ELSE b.e
             x  == BShl(a.m, a.e - e)
             y  == BShl(b.m, b.e - e)
             c  == BCmp(x, y)
         IN  IF a.s = b.s THEN FRound(a.s, BAdd(x, y), e, FALSE)
             ELSE IF c = 0 THEN FZero
             ELSE IF c > 0 THEN FRound(a.s, BSub(x, y), e, FALSE)
             ELSE FRound(b.s, BSub(y, x), e, FALSE)

FSub(a, b) == FAdd(a, FNeg(b))

\* round(x) -> int: the nearest integer, ties to the even one
PyRound(x) ==
    IF x.m = <<>> THEN 0
    ELSE LET mag ==
                 IF x.e >= 0 THEN BToInt(BShl(x.m, x.e))
                 ELSE LET q   == BShr(x.m, -x.e)
                          rem == BSub(x.m, BShl(q, -x.e))
                          c   == BCmp(rem, BShl(<<1>>, -x.e - 1))
                      IN  IF c = 1 \/ (c = 0 /\ BIsOdd(q))
                          THEN BToInt(q) + 1 ELSE BToInt(q)
         IN  IF x.s = 1 THEN -mag ELSE mag

\* A decimal literal n/d of the source, and int / int: the nearest float
FRatio(n, d) == FDiv(FFromInt(n), FFromInt(d))

(***************************************************************************)
(* utils.py                                                                *)
(***************************************************************************)
\* One row of the chart: percentages of 1RM for 1..10 reps
Row(p) == [r \in 1..10 |-> p[r]]

\* RPE_PERCENT_TABLE, as the module defines it; the keys are compared as
\* numbers (10 == 10.0), so they are held as floats
RPE_PERCENT_TABLE ==
    (FFromInt(10)   :> Row(<<100, 95, 92, 89, 86, 84, 81, 79, 76, 74>>))
 @@ (FRatio(19, 2)  :> Row(<<98, 94, 91, 88, 85, 82, 80, 77, 75, 72>>))
 @@ (FFromInt(9)    :> Row(<<96, 92, 89, 86, 84, 81, 79, 76, 74, 71>>))
 @@ (FRatio(17, 2)  :> Row(<<94, 89, 87, 84, 81, 79, 76, 74, 71, 69>>))
 @@ (FFromInt(8)    :> Row(<<92, 87, 84, 81, 79, 76, 74, 71, 69, 66>>))
 @@ (FRatio(15, 2)  :> Row(<<89, 84, 81, 79, 76, 74, 71, 69, 66, 64>>))

\* The float literals of the module
Two == FFromInt(2)

One == FFromInt(1)

Hundred == FFromInt(100)

Five == FFromInt(5)

Ten == FFromInt(10)

EpleyFactor == FRatio(333, 10000)

TwoAndHalf == FRatio(25, 10)

\* Mutant: the rpe is looked up as given, not rounded to the half point
QuantizeNone(rpe) == rpe

\* rpe = round(rpe * 2) / 2
Quantize(rpe) == FDiv(FFromInt(PyRound(FMul(rpe, Two))), Two)

\* Mutant: the 1 of the denominator is dropped, pct = 1 / (0.0333 * (reps - 1))
EpleyFromZero(reps) == FDiv(One, FMul(EpleyFactor, FFromInt(reps - 1)))

\* pct = 1 / (1 + 0.0333 * (reps - 1))
Epley(reps) == FDiv(One, FAdd(One, FMul(EpleyFactor, FFromInt(reps - 1))))

\* Mutant: past the chart's last column a charted rpe keeps that column's
\* percentage instead of falling back
LookupQuantizedClamped(T, q, reps) ==
    IF q \in DOMAIN T /\ reps \in DOMAIN T[q]
    THEN FDiv(FFromInt(T[q][reps]), Hundred)
    ELSE IF q \in DOMAIN T /\ reps > 10
    THEN FDiv(FFromInt(T[q][10]), Hundred)
    ELSE Epley(reps)

\* The lookup for the quantized rpe q
LookupQuantized(T, q, reps) ==
    IF q \in DOMAIN T /\ reps \in DOMAIN T[q]
    THEN FDiv(FFromInt(T[q][reps]), Hundred)
    ELSE Epley(reps)

\* Mutant: a fallback value is cached in the table, as a whole percentage
_lookup_percent_caching(T, rpe, reps) ==
    [pct   |-> LookupQuantized(T, Quantize(rpe), reps),
     table |-> IF Quantize(rpe) \in DOMAIN T /\ reps \in DOMAIN T[Quantize(rpe)]
               THEN T
               ELSE [k \in DOMAIN T \cup {Quantize(rpe)} |->
                       IF k # Quantize(rpe) THEN T[k]
                       ELSE IF k \in DOMAIN T
                       THEN (reps :> PyRound(FMul(Epley(reps), Hundred))) @@ T[k]
                       ELSE (reps :> PyRound(FMul(Epley(reps), Hundred)))]]

\* _lookup_percent on the table T: the value returned (an "err" float when
\* the division raises) and the table the call leaves behind
_lookup_percent(T, rpe, reps) ==
    [pct |-> LookupQuantized(T, Quantize(rpe), reps), table |-> T]

Value(v) == [kind |-> "value", val |-> v]

Raise(exc, msg) == [kind |-> exc, val |-> msg]

NoResult == [kind |-> "none", val |-> ""]

\* Mutant: the rep scheme is listed in rising order
warmup_percentages_rising ==
    << [pct |-> FRatio(5, 10), reps |-> 1, descr |-> "50% of top set"],
       [pct |-> FRatio(7, 10), reps |-> 2, descr |-> "70% of top set"],
       [pct |-> FRatio(8, 10), reps |-> 3, descr |-> "80% of top set"],
       [pct |-> FRatio(9, 10), reps |-> 5, descr |-> "90% of top set"] >>

warmup_percentages ==
    << [pct |-> FRatio(5, 10), reps |-> 5, descr |-> "50% of top set"],
       [pct |-> FRatio(7, 10), reps |-> 3, descr |-> "70% of top set"],
       [pct |-> FRatio(8, 10), reps |-> 2, descr |-> "80% of top set"],
       [pct |-> FRatio(9, 10), reps |-> 1, descr |-> "90% of top set"] >>

\* Mutant: the weight is not rounded to the plate increment
SetWeightUnrounded(weight, pct) == FMul(weight, pct)

\* set_weight = round(weight * pct / 2.5) * 2.5
SetWeight(weight, pct) ==
    FMul(FFromInt(PyRound(FDiv(FMul(weight, pct), TwoAndHalf))), TwoAndHalf)

\* Mutant: the range is checked on the rpe rounded to the half point
RpeInRangeQuantized(rpe) ==
    FLe(Five, Quantize(rpe)) /\ FLe(Quantize(rpe), Ten)

\* if not (5.0 <= rpe <= 10.0)
RpeInRange(rpe) == FLe(Five, rpe) /\ FLe(rpe, Ten)

\* if weight <= 0
WeightNotPositive(weight) == FLe(weight, FZero)

\* if not (1 <= reps <= 20)
RepsInRange(reps) == 1 <= reps /\ reps <= 20

calculate_warmup_sets(rpe, weight, reps) ==
    IF ~RpeInRange(rpe) THEN Raise("ValueError", "RPE must be 5.0-10.0")
    ELSE IF WeightNotPositive(weight)
    THEN Raise("ValueError", "Weight must be positive")
    ELSE IF ~RepsInRange(reps) THEN Raise("ValueError", "Reps must be 1-20")
    ELSE Value([idx \in 1..Len(warmup_percentages) |->
                  [set_number  |-> idx,
                   weight      |-> SetWeight(weight, warmup_percentages[idx].pct),
                   reps        |-> warmup_percentages[idx].reps,
                   description |-> warmup_percentages[idx].descr]])

\* The checks predict_max_reps makes before its loop: the error raised, or
\* NoResult when the loop is entered
PredictCheck(weight, rpe) ==
    IF WeightNotPositive(weight)
    THEN Raise("ValueError", "Weight must be positive")
    ELSE IF ~RpeInRange(rpe) THEN Raise("ValueError", "RPE must be 5.0-10.0")
    ELSE NoResult

\* est_1rm = weight / pct if pct > 0 else 0
Est1rm(weight, p) == IF FLt(FZero, p) THEN FDiv(weight, p) ELSE FZero

\* The last value of range(1, 16)
LastTestReps == 15

\* The loop of predict_max_reps, statement by statement, on the frame F of
\* the call: its arguments and locals, and the module's table.
\* pct = _lookup_percent(rpe, test_reps)
StoreLookup(F, lk) == [F EXCEPT !.pct = lk.pct, !.table = lk.table]

AssignPct(F) == StoreLookup(F, _lookup_percent(F.table, F.rpe, F.test_reps))

\* est_1rm = weight / pct if pct > 0 else 0
AssignEst1rm(F) == [F EXCEPT !.est_1rm = Est1rm(F.weight, F.pct)]

\* calc_weight = est_1rm * pct
AssignCalcWeight(F) == [F EXCEPT !.calc_weight = FMul(F.est_1rm, F.pct)]

\* diff = abs(calc_weight - weight)
AssignDiff(F) == [F EXCEPT !.diff = FAbs(FSub(F.calc_weight, F.weight))]

\* Mutant: a tie replaces the best candidate (diff <= min_diff)
UpdateBestOnTie(F) ==
    IF FLe(F.diff, F.min_diff)
    THEN [F EXCEPT !.min_diff = F.diff, !.best_reps = F.test_reps]
    ELSE F

\* if diff < min_diff: min_diff = diff; best_reps = test_reps
UpdateBest(F) ==
    IF FLt(F.diff, F.min_diff)
    THEN [F EXCEPT !.min_diff = F.diff, !.best_reps = F.test_reps]
    ELSE F

\* One pass of the loop, for the next value of range(1, 16)
PredictBody(F) ==
    UpdateBest(AssignDiff(AssignCalcWeight(AssignEst1rm(AssignPct(
        [F EXCEPT !.test_reps = F.test_reps + 1])))))

RECURSIVE PredictLoop(_)
PredictLoop(F) ==
    IF F.test_reps = LastTestReps \/ F.pct.k = "err" THEN F
    ELSE PredictLoop(PredictBody(F))

\* predict_max_reps(weight, rpe) as one call on the table T
predict_max_reps(T, weight, rpe) ==
    IF PredictCheck(weight, rpe).kind # "none" THEN PredictCheck(weight, rpe)
    ELSE Value(PredictLoop([table |-> T, weight |-> weight, rpe |-> rpe,
                            test_reps |-> 0, min_diff |-> FInf, best_reps |-> 1,
                            pct |-> FZero, est_1rm |-> FZero,
                            calc_weight |-> FZero, diff |-> FZero]).best_reps)

(***************************************************************************)
(* The state: the module's table, and one call at a time (the functions    *)
(* are synchronous and share nothing but the table): its arguments, the    *)
(* locals of predict_max_reps' loop, and what it returned or raised.       *)
(***************************************************************************)
VARIABLES table, pc, fn, rpe, weight, reps, test_reps, min_diff, best_reps,
          pct, est_1rm, calc_weight, diff, ret, calls

vars == <<table, pc, fn, rpe, weight, reps, test_reps, min_diff, best_reps,
          pct, est_1rm, calc_weight, diff, ret, calls>>

locals == <<test_reps, min_diff, best_reps, pct, est_1rm, calc_weight, diff>>

\* The arguments tried.  rpe in quarters RpeLo4/4 .. RpeHi4/4, so that raw
\* values off the half-point grid and on both sides of 5.0 and 10.0 occur;
\* weights in quarters, non-positive ones included.
RpeLo4 == 18

RpeHi4 == 42

MaxSmallWeight4 == 8

MaxLookupReps == 16

\* Calls made one after the other in one run of the process
MaxCalls == 2

RpeInputs == {FRatio(k, 4) : k \in RpeLo4..RpeHi4}

WeightInputs ==
    {FRatio(k, 4) : k \in (-1..MaxSmallWeight4) \cup {-400, 50, 124, 400, 560}}

RepsInputs == {0, 1, 5, 20, 21}

LookupRepsInputs == 1..MaxLookupReps

\* The frame of the running call of predict_max_reps
Frame ==
    [table |-> table, weight |-> weight, rpe |-> rpe, test_reps |-> test_reps,
     min_diff |-> min_diff, best_reps |-> best_reps, pct |-> pct,
     est_1rm |-> est_1rm, calc_weight |-> calc_weight, diff |-> diff]

NoLocals ==
    /\ test_reps = 0
    /\ best_reps = 0
    /\ min_diff = FInf
    /\ pct = FZero
    /\ est_1rm = FZero
    /\ calc_weight = FZero
    /\ diff = FZero

Init ==
    /\ table = RPE_PERCENT_TABLE
    /\ pc = "idle"
    /\ fn = "none"
    /\ rpe = FZero
    /\ weight = FZero
    /\ reps = 0
    /\ ret = NoResult
    /\ calls = 0
    /\ NoLocals

\* A call of _lookup_percent(r, n)
LookupCall(r, n) ==
    /\ pc = "idle"
    /\ calls < MaxCalls
    /\ \E lk \in {_lookup_percent(table, r, n)} :
           /\ ret' = IF lk.pct.k = "err"
                     THEN Raise("ZeroDivisionError", "float division by zero")
                     ELSE Value(lk.pct)
           /\ table' = lk.table
    /\ pc' = "returned"
    /\ fn' = "_lookup_percent"
    /\ rpe' = r
    /\ reps' = n
    /\ UNCHANGED <<weight, locals, calls>>

\* A call of calculate_warmup_sets(r, w, n)
WarmupCall(r, w, n) ==
    /\ pc = "idle"
    /\ calls < MaxCalls
    /\ ret' = calculate_warmup_sets(r, w, n)
    /\ pc' = "returned"
    /\ fn' = "calculate_warmup_sets"
    /\ rpe' = r
    /\ weight' = w
    /\ reps' = n
    /\ UNCHANGED <<table, locals, calls>>

\* A call of predict_max_reps(w, r), up to its loop
PredictCall(w, r) ==
    /\ pc = "idle"
    /\ calls < MaxCalls
    /\ fn' = "predict_max_reps"
    /\ weight' = w
    /\ rpe' = r
    /\ ret' = PredictCheck(w, r)
    /\ pc' = IF PredictCheck(w, r).kind = "none" THEN "loop" ELSE "returned"
    /\ best_reps' = IF PredictCheck(w, r).kind = "none" THEN 1 ELSE 0
    /\ UNCHANGED <<table, reps, test_reps, min_diff, pct, est_1rm, calc_weight,
                   diff, calls>>

\* One pass of the loop
PredictIter ==
    /\ pc = "loop"
    /\ test_reps < LastTestReps
    /\ \E b \in {PredictBody(Frame)} :
           /\ test_reps' = b.test_reps
           /\ pct' = b.pct
           /\ est_1rm' = b.est_1rm
           /\ calc_weight' = b.calc_weight
           /\ diff' = b.diff
           /\ min_diff' = b.min_diff
           /\ best_reps' = b.best_reps
           /\ table' = b.table
           /\ pc' = IF b.pct.k = "err" THEN "returned" ELSE "loop"
           /\ ret' = IF b.pct.k = "err"
                     THEN Raise("ZeroDivisionError", "float division by zero")
                     ELSE ret
    /\ UNCHANGED <<fn, rpe, weight, reps, calls>>

\* return best_reps
PredictReturn ==
    /\ pc = "loop"
    /\ test_reps = LastTestReps
    /\ ret' = Value(best_reps)
    /\ pc' = "returned"
    /\ UNCHANGED <<table, fn, rpe, weight, reps, locals, calls>>

\* The caller takes the result; the call's arguments and locals are gone
Discard ==
    /\ pc = "returned"
    /\ pc' = "idle"
    /\ fn' = "none"
    /\ rpe' = FZero
    /\ weight' = FZero
    /\ reps' = 0
    /\ ret' = NoResult
    /\ test_reps' = 0
    /\ best_reps' = 0
    /\ min_diff' = FInf
    /\ pct' = FZero
    /\ est_1rm' = FZero
    /\ calc_weight' = FZero
    /\ diff' = FZero
    /\ calls' = calls + 1
    /\ UNCHANGED table

Next ==
    \/ \E r \in RpeInputs, n \in LookupRepsInputs : LookupCall(r, n)
    \/ \E r \in RpeInputs, w \in WeightInputs, n \in RepsInputs :
           WarmupCall(r, w, n)
    \/ \E w \in WeightInputs, r \in RpeInputs : PredictCall(w, r)
    \/ PredictIter
    \/ PredictReturn
    \/ Discard

Spec == Init /\ [][Next]_vars

(***************************************************************************)
(* Exact readings of a float, for stating the properties: the value in     *)
(* quarters, when it is a whole number of quarters.                        *)
(***************************************************************************)
IsQuarters(f) ==
    \/ f.m = <<>>
    \/ f.e + 2 >= 0
    \/ BShl(BShr(f.m, -(f.e + 2)), -(f.e + 2)) = f.m

QuartersMag(f) ==
    IF f.m = <<>> THEN 0
    ELSE IF f.e + 2 >= 0 THEN BToInt(BShl(f.m, f.e + 2))
    ELSE BToInt(BShr(f.m, -(f.e + 2)))

\* 4 * f, for a float f with IsQuarters(f)
Quarters(f) == IF f.s = 1 THEN -QuartersMag(f) ELSE QuartersMag(f)

\* round(4 * f / 2), ties to even: the half points of the rpe f, rounded
HalfPoints(f) ==
    IF Quarters(f) % 2 = 0 THEN Quarters(f) \div 2
    ELSE IF ((Quarters(f) - 1) \div 2) % 2 = 0 THEN (Quarters(f) - 1) \div 2
    ELSE (Quarters(f) + 1) \div 2

\* |a - b| for naturals
BDist(a, b) == IF BCmp(a, b) >= 0 THEN BSub(a, b) ELSE BSub(b, a)

\* The positive float p is within u/2 units in its last place of n/d, by
\* exact arithmetic: 2 * |p.m * d - n * 2^(-p.e)| <= u * d  (p.e < 0, d a limb)
WithinHalfUlps(p, n, d, u) ==
    /\ p.k = "fin" /\ p.s = 0 /\ p.m # <<>> /\ p.e < 0
    /\ BCmp(BMulSmall(BDist(BMulSmall(p.m, d), BShl(BFromInt(n), -p.e)), 2),
            BFromInt(u * d)) <= 0

Returned(f) == pc = "returned" /\ fn = f

ValidRpe == Quarters(rpe) >= 20 /\ Quarters(rpe) <= 40

ValidWeight == Quarters(weight) > 0

ValidReps == reps >= 1 /\ reps <= 20

ValidWarmup ==
    Returned("calculate_warmup_sets") /\ ValidRpe /\ ValidWeight /\ ValidReps

\* C1: for every valid input calculate_warmup_sets returns exactly 4 sets,
\* the i-th with set_number i, reps 5, 3, 2, 1 and the descriptions
\* "50% of top set" .. "90% of top set", in that order.
C1_WarmupSets ==
    ValidWarmup =>
        /\ ret.kind = "value"
        /\ DOMAIN ret.val = 1..4
        /\ \A i \in 1..4 :
               /\ ret.val[i].set_number = i
               /\ ret.val[i].reps = <<5, 3, 2, 1>>[i]
               /\ ret.val[i].description =
                      <<"50% of top set", "70% of top set",
                        "80% of top set", "90% of top set">>[i]

\* C1's case: a valid call (weight 140) has returned its sets
C1_Witness ==
    /\ ValidWarmup
    /\ Quarters(weight) = 560
    /\ ret.kind = "value"
    /\ ret.val[1].reps = 5

C3_DocumentedExample ==
    (Returned("calculate_warmup_sets") /\ Quarters(rpe) = 32
        /\ Quarters(weight) = 560 /\ reps = 5) =>
        /\ ret.kind = "value"
        /\ [i \in 1..4 |-> Quarters(ret.val[i].weight)] = <<280, 392, 448, 504>>
        /\ [i \in 1..4 |-> ret.val[i].reps] = <<5, 3, 2, 1>>

\* C4: calculate_warmup_sets raises ValueError, and returns no sets, exactly
\* when weight <= 0, or the rpe as given is outside [5, 10], or reps is
\* outside [1, 20]; predict_max_reps raises it exactly when weight <= 0 or
\* the rpe as given is outside [5, 10]; neither raises anything else.
C4_InvalidInput ==
    /\ Returned("calculate_warmup_sets") =>
           /\ ret.kind \in {"value", "ValueError"}
           /\ ret.kind = "ValueError" <=> ~(ValidRpe /\ ValidWeight /\ ValidReps)
    /\ (fn = "predict_max_reps" /\ pc = "loop") => (ValidWeight /\ ValidRpe)
    /\ Returned("predict_max_reps") =>
           /\ ret.kind \in {"value", "ValueError"}
           /\ ret.kind = "ValueError" <=> ~(ValidWeight /\ ValidRpe)

\* C4's case: rpe 4.75 quantizes to 5.0 and is refused all the same
C4_Witness ==
    /\ Returned("calculate_warmup_sets")
    /\ Quarters(rpe) = 19
    /\ Quantize(rpe) = Five
    /\ ValidWeight /\ ValidReps
    /\ ret.kind = "ValueError"

\* |(w / p) * p - w| in floats
RoundTripError(w, p) == FAbs(FSub(FMul(FDiv(w, p), p), w))

\* The round trip's error for the candidate r of the call in progress
Residual(r) == RoundTripError(weight, _lookup_percent(table, rpe, r).pct)

RECURSIVE Residuals(_)
Residuals(r) ==
    IF r > LastTestReps THEN <<>> ELSE <<Residual(r)>> \o Residuals(r + 1)

\* C5, as stated: for every valid input predict_max_reps returns an integer
\* in [1, 15], and that integer is always 1.
C5_AlwaysOne ==
    (Returned("predict_max_reps") /\ ret.kind = "value") =>
        (ret.val \in 1..15 /\ ret.val = 1)

\* C5, amended: predict_max_reps returns an integer in [1, 15], the lowest
\* candidate whose float residual |(weight / pct) * pct - weight| is least;
\* it is 1 when the quantized rpe is 10 or at most 7 (pct is 1.0 at 1 rep)
\* and for weight 100 at rpe 9.
C5_LowestLeastResidual ==
    (Returned("predict_max_reps") /\ ret.kind = "value") =>
        /\ ret.val \in 1..15
        /\ \E res \in {Residuals(1)} :
               \A r \in 1..15 :
                   IF r < ret.val THEN FLt(res[ret.val], res[r])
                   ELSE FLe(res[ret.val], res[r])
        /\ HalfPoints(rpe) \notin 15..19 => ret.val = 1
        /\ (Quarters(weight) = 400 /\ Quarters(rpe) = 36) => ret.val = 1

\* C5's case: weight 1 at rpe 8.5, where 1 / 0.94 * 0.94 is not 1 but
\* 1 / 0.89 * 0.89 is, returns 2
C5_Witness ==
    /\ Returned("predict_max_reps")
    /\ Quarters(weight) = 4
    /\ Quarters(rpe) = 34
    /\ ret = Value(2)

\* C6: predict_max_reps for weight 100 at rpe 9 yields 5, as the endpoint
\* documents.
C6_DocumentedExample ==
    (Returned("predict_max_reps") /\ Quarters(weight) = 400
        /\ Quarters(rpe) = 36) => ret = Value(5)

\* C7: _lookup_percent rounds the rpe to the half point q and returns
\* RPE_PERCENT_TABLE[q][reps] / 100 when q is one of 7.5 .. 10 and reps is in
\* 1..10, and 1 / (1 + 0.0333 * (reps - 1)) otherwise, whatever the rpe.
\* The values are stated by exact arithmetic: the float nearest to the
\* chart's v/100, and 10000 / (10000 + 333 * (reps - 1)) to within two units
\* in the last place (0.0333 is not a float, and the fallback rounds three
\* times).
C7_LookupValue ==
    Returned("_lookup_percent") =>
        /\ ret.kind = "value"
        /\ IF HalfPoints(rpe) \in 15..20 /\ reps \in 1..10
           THEN WithinHalfUlps(ret.val,
                    RPE_PERCENT_TABLE[FRatio(HalfPoints(rpe), 2)][reps], 100, 1)
           ELSE WithinHalfUlps(ret.val, 10000, 10000 + 333 * (reps - 1), 4)

\* C7's case: rpe 9.25 is off the grid, rounds to 9.0 and hits the chart
C7_Witness ==
    /\ Returned("_lookup_percent")
    /\ Quarters(rpe) = 37
    /\ reps = 5
    /\ ret = Value(FRatio(84, 100))

\* C8: _lookup_percent never raises and returns p with 0 < p <= 1.0, the
\* fallback exactly 1.0 at 1 rep; so in predict_max_reps pct > 0 in every
\* pass of the loop and est_1rm is weight / pct, never the else branch's 0.
C8_LookupPositive ==
    /\ Returned("_lookup_percent") =>
           /\ ret.kind = "value"
           /\ FLt(FZero, ret.val)
           /\ FLe(ret.val, One)
           /\ (reps = 1 /\ HalfPoints(rpe) \notin 15..20) => ret.val = One
    /\ (fn = "predict_max_reps" /\ test_reps >= 1) =>
           /\ ret.kind # "ZeroDivisionError"
           /\ FLt(FZero, pct)
           /\ FLe(pct, One)
           /\ FLt(FZero, est_1rm)

\* C8's case: the 11th pass of the loop at rpe 9, where the lookup has
\* left the chart for the fallback
C8_Witness ==
    /\ fn = "predict_max_reps"
    /\ pc = "loop"
    /\ test_reps = 11
    /\ Quarters(rpe) = 36
    /\ WithinHalfUlps(pct, 10000, 13330, 4)

\* What the call in progress returns when it is the only call ever made
InIsolation ==
    CASE fn = "_lookup_percent" ->
             Value(_lookup_percent(RPE_PERCENT_TABLE, rpe, reps).pct)
      [] fn = "calculate_warmup_sets" -> calculate_warmup_sets(rpe, weight, reps)
      [] fn = "predict_max_reps" ->
             predict_max_reps(RPE_PERCENT_TABLE, weight, rpe)

OnGrid == ValidRpe /\ Quarters(rpe) % 2 = 0

\* C10, as stated: for every half-point rpe in [5, 10] and r in 1..14,
\* _lookup_percent(rpe, r + 1) <= _lookup_percent(rpe, r).
C10_NonIncreasing ==
    (Returned("_lookup_percent") /\ OnGrid /\ reps \in 2..15) =>
        FLe(ret.val, _lookup_percent(table, rpe, reps - 1).pct)

\* C10, amended: the same, except from 10 to 11 reps at the charted rpe
\* 7.5 .. 10, where the fallback (0.7502) is above the chart's 10-rep entry.
C10_NonIncreasingButAtChartEdge ==
    (Returned("_lookup_percent") /\ OnGrid /\ reps \in 2..15) =>
        IF reps = 11 /\ Quarters(rpe) >= 30
        THEN FLt(_lookup_percent(table, rpe, 10).pct, ret.val)
        ELSE FLe(ret.val, _lookup_percent(table, rpe, reps - 1).pct)

\* C10's case: 11 reps at rpe 9 returns more than the chart's 0.71 at 10
C10_Witness ==
    /\ Returned("_lookup_percent")
    /\ Quarters(rpe) = 36
    /\ reps = 11
    /\ FLt(FRatio(71, 100), ret.val)
====
